---- MODULE Spec2Model ----
(***************************************************************************)
(* State-machine model of src/tcgbios.c (SeaBIOS TCG BIOS extension):      *)
(* the TPM state tracker, the command transport, the ACPI log locator,     *)
(* the event log, the extend-then-log measurement pipeline, the boot       *)
(* hooks and the INT 1Ah dispatcher.                                       *)
(*                                                                         *)
(* Every C function is an operator that takes a context record             *)
(*   c = [st, mem, tr, dev, fired, present, acpi, napp, oob]               *)
(* and returns the context it leaves behind together with its result.     *)
(*   st      the global tpm_state                                          *)
(*   mem     the bytes of the log area; mem[a] is the byte at offset a-1   *)
(*   tr      the driver calls and log accesses made so far by the handler  *)
(*   dev     what the TPM hardware will do on the coming transmits         *)
(*   fired   the hardware fault the handler has met, and on which command  *)
(*   present the drivers whose probe() answers non-zero                    *)
(*   acpi    the ACPI tables as the handler finds them                     *)
(*   napp    appends that returned 0 since the last reset_acpi_log         *)
(*   oob     a memcpy has written a byte outside the log area              *)
(***************************************************************************)
EXTENDS Integers, Sequences, FiniteSets, TLC

(***************************************************************************)
(* Bounds of the model.                                                    *)
(***************************************************************************)
\* log_area_minimum_length of the TCPA table the firmware publishes
LogCap == 120
\* log_area_start_address of that table (any non-NULL address)
LogBase == 4096
\* the hardware fault, if any, hits one of the transmits 0..MaxFaultAt
MaxFaultAt == 6

(***************************************************************************)
(* u32 values.  TLC's integers stop at 2^31-1, so a u32 is kept as the     *)
(* pair <<high 16 bits, low 16 bits>> and added modulo 2^32.               *)
(***************************************************************************)
Half == 65536

U32(n) == <<(n \div Half) % Half, n % Half>>

Add32(a, b) ==
    LET lo == a[2] + b[2]
        hi == a[1] + b[1] + (lo \div Half)
    IN  <<hi % Half, lo % Half>>

Lt32(a, b) == a[1] < b[1] \/ (a[1] = b[1] /\ a[2] < b[2])

Gt32(a, b) == Lt32(b, a)

\* the value of a u32 below 2^31 as an integer
Nat32(a) == a[1] * Half + a[2]

IsSmall32(a) == a[1] < 32768

\* the u32 that is 2^32 - n, for 0 < n <= 2^16
Neg32(n) == <<Half - 1, Half - n>>

\* byte i (0 = least significant) of a u32, as memcpy stores it on x86
ByteOf32(a, i) ==
    CASE i = 0 -> a[2] % 256
      [] i = 1 -> a[2] \div 256
      [] i = 2 -> a[1] % 256
      [] i = 3 -> a[1] \div 256

\* be32_to_cpu: the value of four bytes in wire (big-endian) order
be32_to_cpu(b) == <<b[1] * 256 + b[2], b[3] * 256 + b[4]>>

\* cpu_to_be32: the wire bytes of a u32
cpu_to_be32(a) == <<a[1] \div 256, a[1] % 256, a[2] \div 256, a[2] % 256>>

(***************************************************************************)
(* Program constants.                                                      *)
(***************************************************************************)
NULL == 0

TPM_NUM_DRIVERS == 1
TPM_INVALID_DRIVER == 15

\* sizeof(struct pcpes): pcrindex, eventtype, digest[20], eventdatasize
SizeofPcpes == 32
\* sizeof(struct tpm_req_header): tag, totlen, ordinal
SizeofReqHeader == 10
\* sizeof(struct tpm_req_extend): header, pcrindex, digest[20]
SizeofReqExtend == 34
\* sizeof(struct tpm_rsp_extend): tag, totlen, errcode, digest[20]
SizeofRspExtend == 30
\* sizeof(obuffer) and sizeof(req.cmd) in build_and_send_cmd
SizeofObuffer == 64
SizeofReqCmd == 20
\* sizeof(struct pcctes): eventid, eventdatasize, digest[20]
SizeofPcctes == 28
\* sizeof(struct pcctes_romex): eventid, eventdatasize, 2 x u16, digest[20]
SizeofPcctesRomex == 32
\* the input and output blocks of the INT 1Ah functions
SizeofHleeiShort == 24
SizeofHleeiLong == 28
SizeofHlei == 28
SizeofHai == 16
SizeofPttti == 8
SizeofPttto == 4
\* sizeof(trh), a pointer, in pass_through_to_tpm_int
SizeofTrhPtr == 4
\* sizeof(info) in compact_hash_log_extend_event_int
SizeofInfo == 4

EV_SEPARATOR == 4
EV_ACTION == 5
EV_EVENT_TAG == 6
EV_COMPACT_HASH == 12
EV_IPL == 13
EV_IPL_PARTITION_DATA == 14

TPM_ALG_SHA == 4

\* return codes of the TCG BIOS interface; OK is the code's 0
OK == "OK"
TCG_GENERAL_ERROR == "TCG_GENERAL_ERROR"
TCG_FATAL_COM_ERROR == "TCG_FATAL_COM_ERROR"
TCG_INVALID_INPUT_PARA == "TCG_INVALID_INPUT_PARA"
TCG_INTERFACE_SHUTDOWN == "TCG_INTERFACE_SHUTDOWN"
TCG_PC_LOGOVERFLOW == "TCG_PC_LOGOVERFLOW"
TCG_PC_UNSUPPORTED == "TCG_PC_UNSUPPORTED"
TCG_PC_TPM_NOT_PRESENT == "TCG_PC_TPM_NOT_PRESENT"
TCG_TCG_COMMAND_ERROR == "TCG_TCG_COMMAND_ERROR"
TCG_FIRMWARE_ERROR == "TCG_FIRMWARE_ERROR"

\* status codes in a TPM response header
TPM_SUCCESS == "TPM_SUCCESS"
TPM_FAIL == "TPM_FAIL"
TPM_BAD_LOCALITY == "TPM_BAD_LOCALITY"
TPM_INVALID_POSTINIT == "TPM_INVALID_POSTINIT"
\* the caller's returnCode variable when build_and_send_cmd did not set it
UNINIT == "UNINIT"

(***************************************************************************)
(* Commands, hardware behaviour and the handler's trace.                   *)
(***************************************************************************)
\* a framed TPM request: ordinal, the constant appended to it, the PCR and
\* digest of an Extend, and the totlen field as it stands on the wire
Cmd(ordinal, data, totlen) ==
    [ordinal |-> ordinal, data |-> data, pcrindex |-> 0, digest |-> 0,
     totlen |-> cpu_to_be32(U32(totlen))]

NoCmd == Cmd("", "", 0)

\* one driver call or log access of the running handler; dest is the
\* address a memcpy writes to, and its cmd holds the PCR index and digest
\* of the struct pcpes it copies from
Ev(fn, locty, cmd) == [fn |-> fn, locty |-> locty, cmd |-> cmd, dest |-> 0]

\* the driver functions transmit calls, in the order it calls them
TransportSteps ==
    <<"activate", "senddata", "waitdatavalid", "waitrespready", "readresp",
      "ready">>

\* the driver functions that report a status; ready() reports none
FallibleSteps ==
    {"activate", "senddata", "waitdatavalid", "waitrespready", "readresp"}

\* faults that leave the transport intact and show in the response
ResponseFaults == {"errcode", "bad_locality", "invalid_postinit", "shortresp"}

Faults == {"none"} \cup FallibleSteps \cup ResponseFaults

\* the hardware plan of a handler: transmit number n (counted from 0) meets
\* the fault, every other transmit is answered normally
DevPlans == [n : 0..MaxFaultAt, fault : Faults]

StepIndex(name) == CHOOSE i \in 1..Len(TransportSteps) : TransportSteps[i] = name

\* length of the response a healthy TPM gives to a command
NormalRespLen(cmd) ==
    IF cmd.ordinal = "TPM_ORD_Extend" THEN SizeofRspExtend ELSE SizeofReqHeader

Min(a, b) == IF a < b THEN a ELSE b

\* the value of K on v, with v evaluated once: the C code's
\*   T w = v; ... K(w) ...
Then(v, K(_)) == CHOOSE y \in {K(w) : w \in {v}} : TRUE

(***************************************************************************)
(* TPM hardware interface                                                  *)
(***************************************************************************)
\* the loop of is_tpm_present from driver i on
RECURSIVE ProbeFrom(_, _)
ProbeFrom(c, i) ==
    IF i >= TPM_NUM_DRIVERS
    THEN [c |-> c, rc |-> 0]
    ELSE LET probed == [c EXCEPT !.tr = Append(@, Ev("probe", i, NoCmd))]
         IN  IF i \in c.present
             THEN [c |-> [probed EXCEPT
                            !.tr = Append(@, Ev("init", i, NoCmd)),
                            !.st.tpm_driver_to_use = i],
                   rc |-> 1]
             ELSE ProbeFrom(probed, i + 1)

is_tpm_present(c) == ProbeFrom(c, 0)

\* probe_tpm that marks the TPM working whatever the probe found
probe_tpm_WorkingAlways(c) ==
    IF ~c.st.tpm_probed
    THEN Then(is_tpm_present([c EXCEPT !.st.tpm_probed = TRUE]), LAMBDA r :
            [r.c EXCEPT !.st.tpm_found = (r.rc # 0),
                        !.st.tpm_working = TRUE])
    ELSE c

probe_tpm(c) ==
    IF ~c.st.tpm_probed
    THEN Then(is_tpm_present([c EXCEPT !.st.tpm_probed = TRUE]), LAMBDA r :
            [r.c EXCEPT !.st.tpm_found = (r.rc # 0),
                        !.st.tpm_working = (r.rc # 0)])
    ELSE c

has_working_tpm(c) ==
    Then(probe_tpm(c), LAMBDA c1 : [c |-> c1, rc |-> c1.st.tpm_working])

\* the driver calls of one transmit that fails at step k (k = 0: none fails)
\* a transmit that goes on to the later driver steps after the failing one
StepCalls_Through(locty, cmd, k) ==
    [i \in 1..Len(TransportSteps) |->
        Ev(TransportSteps[i], locty,
           IF TransportSteps[i] = "senddata" THEN cmd ELSE NoCmd)]

StepCalls(locty, cmd, k) ==
    LET last == IF k = 0 THEN Len(TransportSteps) ELSE k
    IN  [i \in 1..last |->
            Ev(TransportSteps[i], locty,
               IF TransportSteps[i] = "senddata" THEN cmd ELSE NoCmd)]

\* what the hardware does on the transmit that is next
FaultNow(c) == IF c.dev.n = 0 THEN c.dev.fault ELSE "none"

\* the response a transmit that went through reads back
Response(cmd, respbufferlen, fault) ==
    [resplen |->
        CASE fault = "shortresp" ->
                 Min(respbufferlen, NormalRespLen(cmd) - 1)
          [] fault \in {"errcode", "bad_locality", "invalid_postinit"} ->
                 Min(respbufferlen, SizeofReqHeader)
          [] OTHER ->
                 Min(respbufferlen, NormalRespLen(cmd)),
     errcode |->
        CASE fault = "errcode" -> TPM_FAIL
          [] fault = "bad_locality" -> TPM_BAD_LOCALITY
          [] fault = "invalid_postinit" -> TPM_INVALID_POSTINIT
          [] OTHER -> TPM_SUCCESS]

\* the calls of a transmit that went through, with what readresp stored:
\* the errcode of the response as the data of the call, its length as totlen
Answered(calls, rsp) ==
    [i \in DOMAIN calls |->
        IF calls[i].fn = "readresp"
        THEN [calls[i] EXCEPT !.cmd.data = rsp.errcode,
                              !.cmd.totlen = cpu_to_be32(U32(rsp.resplen))]
        ELSE calls[i]]

transmit(c, locty, cmd, respbufferlen) ==
    IF c.st.tpm_driver_to_use = TPM_INVALID_DRIVER
    THEN [c |-> c, rc |-> TCG_FATAL_COM_ERROR,
          resplen |-> respbufferlen, errcode |-> UNINIT]
    ELSE Then(FaultNow(c), LAMBDA fault :
         Then([c EXCEPT
                 !.tr = @ \o (IF fault \in FallibleSteps
                              THEN StepCalls(locty, cmd, StepIndex(fault))
                              ELSE Answered(StepCalls(locty, cmd, 0),
                                            Response(cmd, respbufferlen,
                                                     fault))),
                 !.dev = IF c.dev.n = 0 THEN [n |-> 0, fault |-> "none"]
                         ELSE [c.dev EXCEPT !.n = @ - 1],
                 !.fired = IF fault # "none"
                           THEN [fault |-> fault, ordinal |-> cmd.ordinal]
                           ELSE @],
              LAMBDA c2 :
         IF fault \in FallibleSteps
         THEN [c |-> c2, rc |-> TCG_FATAL_COM_ERROR,
               resplen |-> respbufferlen, errcode |-> UNINIT]
         ELSE [c |-> c2, rc |-> OK,
               resplen |-> Response(cmd, respbufferlen, fault).resplen,
               errcode |-> Response(cmd, respbufferlen, fault).errcode]))

(***************************************************************************)
(* ACPI TCPA table interface                                               *)
(***************************************************************************)
\* a table the RSDT points to: whether its signature is TCPA_SIGNATURE,
\* whether its bytes sum to zero, and the log area it describes
AcpiTable(sig, sum) ==
    [signature_ok |-> sig, checksum_ok |-> sum,
     log_area_start_address |-> LogBase,
     log_area_minimum_length |-> U32(LogCap)]

\* the firmware's ACPI tables as a handler finds them: is RsdpAddr set, is
\* rsdp->rsdt_physical_address set, and the tables behind rsdt->entry[]
AcpiStates ==
    { [rsdp |-> FALSE, rsdt |-> FALSE, entry |-> <<>>],
      [rsdp |-> TRUE, rsdt |-> FALSE, entry |-> <<>>],
      [rsdp |-> TRUE, rsdt |-> TRUE, entry |-> <<>>],
      [rsdp |-> TRUE, rsdt |-> TRUE,
       entry |-> <<AcpiTable(FALSE, TRUE), AcpiTable(TRUE, FALSE)>>],
      [rsdp |-> TRUE, rsdt |-> TRUE,
       entry |-> <<AcpiTable(FALSE, TRUE), AcpiTable(TRUE, TRUE)>>] }

\* the while loop of find_tcpa_by_rsdp from entry ctr on: a pointer is
\* modelled as <<>> (NULL) or <<table>>
RECURSIVE ScanRsdt(_, _)
ScanRsdt(entry, ctr) ==
    IF ctr > Len(entry)
    THEN <<>>
    ELSE IF entry[ctr].signature_ok /\ entry[ctr].checksum_ok
         THEN <<entry[ctr]>>
         ELSE ScanRsdt(entry, ctr + 1)

find_tcpa_by_rsdp(c) ==
    IF ~c.acpi.rsdt
    THEN [c |-> c, tcpa |-> <<>>]
    ELSE Then(ScanRsdt(c.acpi.entry, 1), LAMBDA tcpa :
            [c |-> IF tcpa # <<>> THEN [c EXCEPT !.st.tcpa = tcpa] ELSE c,
             tcpa |-> tcpa])

find_tcpa_table(c) ==
    IF c.st.tcpa # <<>>
    THEN [c |-> c, tcpa |-> c.st.tcpa]
    ELSE IF c.acpi.rsdp
         THEN find_tcpa_by_rsdp(c)
         ELSE [c |-> [c EXCEPT !.st.if_shutdown = TRUE], tcpa |-> <<>>]

\* returns the base pointer; *log_area_minimum_length is stored only when a
\* table was found
get_lasa_base_ptr(c) ==
    Then(find_tcpa_table(c), LAMBDA r :
        IF r.tcpa # <<>>
        THEN [c |-> [r.c EXCEPT !.st.log_area_minimum_length =
                                    r.tcpa[1].log_area_minimum_length],
              ptr |-> r.tcpa[1].log_area_start_address]
        ELSE [c |-> r.c, ptr |-> NULL])

\* ZeroLog with a length that is one byte short
ZeroLog_OneShort(c) ==
    [c EXCEPT
       !.mem = [a \in DOMAIN c.mem |->
                  IF Lt32(U32(a), c.st.log_area_minimum_length)
                  THEN 0 ELSE c.mem[a]],
       !.tr = Append(@, Ev("memset", 0, NoCmd))]

\* memset(log_area_start_address, 0, log_area_minimum_length)
ZeroLog(c) ==
    [c EXCEPT
       !.mem = [a \in DOMAIN c.mem |->
                  IF Lt32(U32(a - 1), c.st.log_area_minimum_length)
                  THEN 0 ELSE c.mem[a]],
       !.tr = Append(@, Ev("memset", 0, NoCmd))]

reset_acpi_log(c) ==
    Then(get_lasa_base_ptr(c), LAMBDA r :
    Then([r.c EXCEPT !.st.log_area_start_address = r.ptr], LAMBDA c1 :
    Then(IF c1.st.log_area_start_address # NULL THEN ZeroLog(c1) ELSE c1,
         LAMBDA c2 :
        [c2 EXCEPT !.st.log_area_next_entry = c2.st.log_area_start_address,
                   !.st.log_area_last_entry = NULL,
                   !.st.entry_count = 0,
                   !.napp = 0])))

\* byte i of a struct pcpes header.  A digest is abstract: SHA-1 is not
\* modelled, digest d stands for twenty bytes of value d
HdrByte(pcpes, i) ==
    CASE i < 4  -> ByteOf32(U32(pcpes.pcrindex), i)
      [] i >= 4 /\ i < 8 -> ByteOf32(U32(pcpes.eventtype), i - 4)
      [] i >= 8 /\ i < 28 -> pcpes.digest
      [] OTHER -> ByteOf32(pcpes.eventdatasize, i - 28)

\* byte j of an event body; a body is named by a number and reads as
\* non-zero bytes that depend on that number and on the position
EventByte(event, j) == 1 + ((event + j) % 255)

\* the two memcpy calls of tpm_log_event at offset off of the log area: the
\* header, then eventdatasize bytes of the event body
CopyEntry(mem, off, pcpes, event) ==
    [a \in DOMAIN mem |->
        IF a - 1 >= off /\ a - 1 < off + SizeofPcpes
        THEN HdrByte(pcpes, a - 1 - off)
        ELSE IF a - 1 >= off + SizeofPcpes
                /\ Lt32(U32(a - 1 - off - SizeofPcpes), pcpes.eventdatasize)
             THEN EventByte(event, a - 1 - off - SizeofPcpes)
             ELSE mem[a]]

\* do those memcpy calls write a byte that is not in the log area
OutOfArea(mem, off, pcpes) ==
    \/ off + SizeofPcpes > Len(mem)
    \/ ~IsSmall32(pcpes.eventdatasize)
    \/ Gt32(Add32(U32(off + SizeofPcpes), pcpes.eventdatasize),
            U32(Len(mem)))

\* AdvanceLog with log_area_last_entry assigned after the cursor has moved
AdvanceLog_LastAfter(st, size) ==
    [st EXCEPT
       !.log_area_last_entry =
           st.log_area_start_address
             + Nat32(Add32(U32(st.log_area_next_entry
                                 - st.log_area_start_address), size)),
       !.log_area_next_entry =
           st.log_area_start_address
             + Nat32(Add32(U32(st.log_area_next_entry
                                 - st.log_area_start_address), size)),
       !.entry_count = @ + 1]

\* the bookkeeping after the copy; next_entry += size is 32-bit pointer
\* arithmetic
AdvanceLog(st, size) ==
    [st EXCEPT
       !.log_area_last_entry = st.log_area_next_entry,
       !.log_area_next_entry =
           st.log_area_start_address
             + Nat32(Add32(U32(st.log_area_next_entry
                                 - st.log_area_start_address), size)),
       !.entry_count = @ + 1]

\* the cursor as an offset into the log area
NextOffset(st) == st.log_area_next_entry - st.log_area_start_address

tpm_log_event(c, pcpes, event) ==
    Then([c EXCEPT !.tr = Append(@, Ev("tpm_log_event", 0, NoCmd))],
         LAMBDA c0 :
    IF c.st.log_area_next_entry = NULL
    THEN [c |-> c0, rc |-> TCG_PC_LOGOVERFLOW]
    ELSE IF Gt32(Add32(U32(NextOffset(c.st)),
                       Add32(U32(SizeofPcpes), pcpes.eventdatasize)),
                 c.st.log_area_minimum_length)
    THEN [c |-> c0, rc |-> TCG_PC_LOGOVERFLOW]
    ELSE [c |-> [c0 EXCEPT
                   !.mem = CopyEntry(c.mem, NextOffset(c.st), pcpes, event),
                   !.oob = @ \/ OutOfArea(c.mem, NextOffset(c.st), pcpes),
                   !.tr = Append(@, [Ev("memcpy", 0, NoCmd) EXCEPT
                                       !.dest = c.st.log_area_next_entry,
                                       !.cmd.pcrindex = pcpes.pcrindex,
                                       !.cmd.digest = pcpes.digest]),
                   !.st = AdvanceLog(c.st, Add32(U32(SizeofPcpes),
                                                 pcpes.eventdatasize)),
                   !.napp = @ + 1],
          rc |-> OK])

(***************************************************************************)
(* Helper functions                                                        *)
(***************************************************************************)
build_and_send_cmd(c, locty, ordinal, data, append_size, return_size) ==
    IF return_size > SizeofObuffer \/ append_size > SizeofReqCmd
    THEN [c |-> c, rc |-> TCG_FIRMWARE_ERROR, returnCode |-> UNINIT]
    ELSE Then(transmit(c, locty,
                       Cmd(ordinal, data, SizeofReqHeader + append_size),
                       SizeofObuffer),
              LAMBDA r :
                 IF r.rc # OK
                 THEN [c |-> r.c, rc |-> r.rc, returnCode |-> UNINIT]
                 ELSE [c |-> r.c, rc |-> OK, returnCode |-> r.errcode])

tpm_set_failure(c) ==
    LET r1 == build_and_send_cmd(c, 0, "TPM_ORD_PhysicalPresence",
                                 "PhysicalPresence_CMD_ENABLE", 2, 0)
        r2 == build_and_send_cmd(r1.c, 0, "TPM_ORD_PhysicalPresence",
                                 "PhysicalPresence_PRESENT", 2, 0)
        r3 == build_and_send_cmd(r2.c, 0, "TPM_ORD_SetTempDeactivated",
                                 "", 0, 0)
    IN  [r3.c EXCEPT !.st.tpm_working = FALSE]

\* the common tail of the err_exit labels: mark the failure and return rc,
\* or TCG_TCG_COMMAND_ERROR when rc is 0
ErrExit(c, rc) ==
    [c |-> tpm_set_failure(c),
     rc |-> IF rc # OK THEN rc ELSE TCG_TCG_COMMAND_ERROR]

\* determine_timeouts without the test of the first query's returnCode
determine_timeouts_StatusIgnored(c) ==
    Then(build_and_send_cmd(c, 0, "TPM_ORD_GetCapability",
                            "GetCapability_Timeouts", 12, 30), LAMBDA r1 :
    IF r1.rc # OK
    THEN ErrExit(r1.c, r1.rc) ELSE
    Then(build_and_send_cmd(r1.c, 0, "TPM_ORD_GetCapability",
                            "GetCapability_Durations", 12, 26), LAMBDA r2 :
    IF r2.rc # OK \/ r2.returnCode # TPM_SUCCESS
    THEN ErrExit(r2.c, r2.rc) ELSE
    [c |-> [r2.c EXCEPT !.tr = Append(@, Ev("set_timeouts", 0, NoCmd))],
     rc |-> OK]))

determine_timeouts(c) ==
    Then(build_and_send_cmd(c, 0, "TPM_ORD_GetCapability",
                            "GetCapability_Timeouts", 12, 30), LAMBDA r1 :
    IF r1.rc # OK \/ r1.returnCode # TPM_SUCCESS
    THEN ErrExit(r1.c, r1.rc) ELSE
    Then(build_and_send_cmd(r1.c, 0, "TPM_ORD_GetCapability",
                            "GetCapability_Durations", 12, 26), LAMBDA r2 :
    IF r2.rc # OK \/ r2.returnCode # TPM_SUCCESS
    THEN ErrExit(r2.c, r2.rc) ELSE
    [c |-> [r2.c EXCEPT !.tr = Append(@, Ev("set_timeouts", 0, NoCmd))],
     rc |-> OK]))

\* the TPM_ORD_Extend request built from the event header
ExtendCmd(pcpes) ==
    [Cmd("TPM_ORD_Extend", "", SizeofReqExtend) EXCEPT
        !.pcrindex = pcpes.pcrindex, !.digest = pcpes.digest]

\* tpm_log_extend_event that does not look at the length of the response
tpm_log_extend_event_AnyLength(c, pcpes, event) ==
    Then(has_working_tpm(c), LAMBDA h :
    IF ~h.rc
    THEN [c |-> h.c, rc |-> TCG_GENERAL_ERROR]
    ELSE IF pcpes.pcrindex >= 24
    THEN [c |-> h.c, rc |-> TCG_INVALID_INPUT_PARA] ELSE
    Then(transmit(h.c, 0, ExtendCmd(pcpes), SizeofRspExtend), LAMBDA r :
    IF r.rc # OK
    THEN [c |-> tpm_set_failure(r.c), rc |-> r.rc] ELSE
    Then(tpm_log_event(r.c, pcpes, event), LAMBDA l :
    IF l.rc # OK
    THEN [c |-> tpm_set_failure(l.c), rc |-> l.rc]
    ELSE l)))

\* tpm_log_extend_event that returns a failed append as it is
tpm_log_extend_event_QuietOverflow(c, pcpes, event) ==
    Then(has_working_tpm(c), LAMBDA h :
    IF ~h.rc
    THEN [c |-> h.c, rc |-> TCG_GENERAL_ERROR]
    ELSE IF pcpes.pcrindex >= 24
    THEN [c |-> h.c, rc |-> TCG_INVALID_INPUT_PARA] ELSE
    Then(transmit(h.c, 0, ExtendCmd(pcpes), SizeofRspExtend), LAMBDA r :
    IF r.rc # OK \/ r.resplen # SizeofRspExtend
    THEN [c |-> tpm_set_failure(r.c), rc |-> r.rc]
    ELSE tpm_log_event(r.c, pcpes, event)))

tpm_log_extend_event(c, pcpes, event) ==
    Then(has_working_tpm(c), LAMBDA h :
    IF ~h.rc
    THEN [c |-> h.c, rc |-> TCG_GENERAL_ERROR]
    ELSE IF pcpes.pcrindex >= 24
    THEN [c |-> h.c, rc |-> TCG_INVALID_INPUT_PARA] ELSE
    Then(transmit(h.c, 0, ExtendCmd(pcpes), SizeofRspExtend), LAMBDA r :
    IF r.rc # OK \/ r.resplen # SizeofRspExtend
    THEN [c |-> tpm_set_failure(r.c), rc |-> r.rc] ELSE
    Then(tpm_log_event(r.c, pcpes, event), LAMBDA l :
    IF l.rc # OK
    THEN [c |-> tpm_set_failure(l.c), rc |-> l.rc]
    ELSE l)))

\* the SHA-1 primitive, abstractly: data named h hashes to digest Sha1(h),
\* different from the zero digest and from the digests callers pass in
Sha1(h) == 128 + (h % 128)

\* hashdata is NULL (0) or names the data to hash
tpm_fill_hash(pcpes, hashdata) ==
    IF hashdata # NULL
    THEN [pcpes EXCEPT !.digest = Sha1(hashdata)]
    ELSE pcpes

Pcpes(pcrindex, eventtype, eventdatasize) ==
    [pcrindex |-> pcrindex, eventtype |-> eventtype, digest |-> 0,
     eventdatasize |-> eventdatasize]

tpm_add_measurement_to_log(c, pcrindex, event_type, event, event_length, hashdata) ==
    tpm_log_extend_event(
        c, tpm_fill_hash(Pcpes(pcrindex, event_type, U32(event_length)),
                         hashdata),
        event)

(***************************************************************************)
(* Setup and Measurements                                                  *)
(***************************************************************************)
\* an action string is named by its length, which is also what strlen
\* returns for it
tpm_add_action(c, pcrIndex, string) ==
    tpm_add_measurement_to_log(c, pcrIndex, EV_ACTION, string, string, string)

\* the while loop of tpm_add_event_separators from pcrIndex on
RECURSIVE SeparatorsFrom(_, _)
SeparatorsFrom(c, pcrIndex) ==
    IF pcrIndex > 7
    THEN [c |-> c, rc |-> OK]
    ELSE Then(tpm_add_measurement_to_log(c, pcrIndex, EV_SEPARATOR,
                                         NULL, 0, 255),
              LAMBDA r :
                 IF r.rc # OK THEN r ELSE SeparatorsFrom(r.c, pcrIndex + 1))

\* separators for PCR 1..7 only
tpm_add_event_separators_FromOne(c) ==
    Then(has_working_tpm(c), LAMBDA h :
    IF ~h.rc
    THEN [c |-> h.c, rc |-> TCG_GENERAL_ERROR]
    ELSE SeparatorsFrom(h.c, 1))

tpm_add_event_separators(c) ==
    Then(has_working_tpm(c), LAMBDA h :
    IF ~h.rc
    THEN [c |-> h.c, rc |-> TCG_GENERAL_ERROR]
    ELSE SeparatorsFrom(h.c, 0))

\* smbios: is SMBiosAddr set
tpm_smbios_measure(c, smbios) ==
    Then(has_working_tpm(c), LAMBDA h :
    IF ~h.rc
    THEN [c |-> h.c, rc |-> TCG_GENERAL_ERROR]
    ELSE IF ~smbios
    THEN [c |-> h.c, rc |-> OK]
    ELSE tpm_add_measurement_to_log(h.c, 1, EV_EVENT_TAG, 1,
                                    SizeofPcctes, 1))

\* coreboot: CONFIG_COREBOOT of the build
tpm_startup(c, smbios, coreboot) ==
    Then(has_working_tpm(c), LAMBDA h :
    IF ~h.rc THEN [c |-> h.c, rc |-> TCG_GENERAL_ERROR] ELSE
    Then(build_and_send_cmd(h.c, 0, "TPM_ORD_Startup",
                            "Startup_ST_CLEAR", 2, 0), LAMBDA r1 :
    IF r1.rc # OK
       \/ (r1.returnCode # TPM_SUCCESS
           /\ ~(coreboot /\ r1.returnCode = TPM_INVALID_POSTINIT))
    THEN ErrExit(r1.c, r1.rc) ELSE
    Then(determine_timeouts(r1.c), LAMBDA r2 :
    IF r2.rc # OK THEN ErrExit(r2.c, r2.rc) ELSE
    Then(build_and_send_cmd(r2.c, 0, "TPM_ORD_SelfTestFull", "", 0, 0),
         LAMBDA r3 :
    IF r3.rc # OK \/ r3.returnCode # TPM_SUCCESS
    THEN ErrExit(r3.c, r3.rc) ELSE
    Then(build_and_send_cmd(r3.c, 3, "TSC_ORD_ResetEstablishmentBit",
                            "", 0, 0), LAMBDA r4 :
    IF r4.rc # OK \/ r4.returnCode \notin {TPM_SUCCESS, TPM_BAD_LOCALITY}
    THEN ErrExit(r4.c, r4.rc) ELSE
    Then(tpm_smbios_measure(r4.c, smbios), LAMBDA r5 :
    IF r5.rc # OK THEN ErrExit(r5.c, r5.rc) ELSE
    \* "Start Option ROM Scan"
    Then(tpm_add_action(r5.c, 2, 21), LAMBDA r6 :
    IF r6.rc # OK THEN ErrExit(r6.c, r6.rc) ELSE
    [c |-> r6.c, rc |-> OK])))))))

\* the flags tpm_acpi_init clears before it probes
ClearFlags(c) ==
    [c EXCEPT !.st.if_shutdown = FALSE,
              !.st.tpm_probed = FALSE,
              !.st.tpm_found = FALSE,
              !.st.tpm_working = FALSE]

tpm_acpi_init(c) ==
    Then(has_working_tpm(ClearFlags(c)), LAMBDA h :
    IF ~h.rc
    THEN [h.c EXCEPT !.st.if_shutdown = TRUE]
    ELSE reset_acpi_log(h.c))

tpm_prepboot(c) ==
    Then(has_working_tpm(c), LAMBDA h :
    IF ~h.rc THEN h.c ELSE
    Then(build_and_send_cmd(h.c, 0, "TPM_ORD_PhysicalPresence",
                            "PhysicalPresence_CMD_ENABLE", 2, 0), LAMBDA r1 :
    IF r1.rc # OK \/ r1.returnCode # TPM_SUCCESS
    THEN tpm_set_failure(r1.c) ELSE
    Then(build_and_send_cmd(r1.c, 0, "TPM_ORD_PhysicalPresence",
                            "PhysicalPresence_NOT_PRESENT_LOCK", 2, 0),
         LAMBDA r2 :
    IF r2.rc # OK \/ r2.returnCode # TPM_SUCCESS
    THEN tpm_set_failure(r2.c) ELSE
    \* "Calling INT 19h"
    Then(tpm_add_action(r2.c, 4, 15), LAMBDA r3 :
    IF r3.rc # OK THEN tpm_set_failure(r3.c) ELSE
    Then(tpm_add_event_separators(r3.c), LAMBDA r4 :
    IF r4.rc # OK THEN tpm_set_failure(r4.c) ELSE r4.c)))))

tpm_option_rom(c) ==
    Then(has_working_tpm(c), LAMBDA h :
    IF ~h.rc
    THEN [c |-> h.c, rc |-> TCG_GENERAL_ERROR]
    ELSE tpm_add_measurement_to_log(h.c, 2, EV_EVENT_TAG, 7,
                                    SizeofPcctesRomex, 7))

\* bootdrv: the drive number; 128 (0x80) is the hard disk, and the action
\* string is "Booting BCV device 80h (HDD)" or "... 00h (Floppy)"
tpm_add_bcv(c, bootdrv) ==
    Then(has_working_tpm(c), LAMBDA h :
    IF ~h.rc THEN [c |-> h.c, rc |-> TCG_GENERAL_ERROR] ELSE
    Then(tpm_add_action(h.c, 4, IF bootdrv = 128 THEN 28 ELSE 31),
         LAMBDA r1 :
    IF r1.rc # OK THEN r1 ELSE
    Then(tpm_add_measurement_to_log(r1.c, 4, EV_IPL, 3, 3, 440), LAMBDA r2 :
    IF r2.rc # OK THEN r2 ELSE
    tpm_add_measurement_to_log(r2.c, 5, EV_IPL_PARTITION_DATA, 19, 19, 72))))

\* "Booting from CD ROM device"
tpm_add_cdrom(c) ==
    Then(has_working_tpm(c), LAMBDA h :
    IF ~h.rc THEN [c |-> h.c, rc |-> TCG_GENERAL_ERROR] ELSE
    Then(tpm_add_action(h.c, 4, 26), LAMBDA r1 :
    IF r1.rc # OK THEN r1 ELSE
    tpm_add_measurement_to_log(r1.c, 4, EV_IPL, 13, 13, 2048)))

tpm_add_cdrom_catalog(c) ==
    Then(has_working_tpm(c), LAMBDA h :
    IF ~h.rc THEN [c |-> h.c, rc |-> TCG_GENERAL_ERROR] ELSE
    Then(tpm_add_action(h.c, 4, 26), LAMBDA r1 :
    IF r1.rc # OK THEN r1 ELSE
    tpm_add_measurement_to_log(r1.c, 5, EV_IPL_PARTITION_DATA, 12, 12,
                               2049)))

\* tpm_s3_resume that first takes a found TPM to be working again
tpm_s3_resume_Revive(c) ==
    Then(has_working_tpm([c EXCEPT !.st.tpm_working = c.st.tpm_found]),
         LAMBDA h :
    IF ~h.rc THEN h.c ELSE
    Then(build_and_send_cmd(h.c, 0, "TPM_ORD_Startup",
                            "Startup_ST_STATE", 2, 0), LAMBDA r :
    IF r.rc # OK \/ r.returnCode # TPM_SUCCESS
    THEN tpm_set_failure(r.c)
    ELSE r.c))

tpm_s3_resume(c) ==
    Then(has_working_tpm(c), LAMBDA h :
    IF ~h.rc THEN h.c ELSE
    Then(build_and_send_cmd(h.c, 0, "TPM_ORD_Startup",
                            "Startup_ST_STATE", 2, 0), LAMBDA r :
    IF r.rc # OK \/ r.returnCode # TPM_SUCCESS
    THEN tpm_set_failure(r.c)
    ELSE r.c))

(***************************************************************************)
(* BIOS interface.  A request is the input block as the caller laid it     *)
(* out, with the struct pcpes and the event body that logdataptr points    *)
(* to; the functions return rc and the opblength they store.               *)
(***************************************************************************)
hash_log_extend_event_int(c, hleei) ==
    IF c.st.if_shutdown
    THEN [c |-> c, rc |-> TCG_INTERFACE_SHUTDOWN, opblength |-> 4]
    ELSE IF hleei.ipblength \notin {SizeofHleeiShort, SizeofHleeiLong}
    THEN [c |-> c, rc |-> TCG_INVALID_INPUT_PARA, opblength |-> 4]
    ELSE IF hleei.pcpes.pcrindex >= 24
            \/ hleei.pcpes.pcrindex # hleei.pcrindex
            \/ hleei.logdatalen
                 # Add32(U32(SizeofPcpes), hleei.pcpes.eventdatasize)
    THEN [c |-> c, rc |-> TCG_INVALID_INPUT_PARA, opblength |-> 4]
    ELSE Then(tpm_log_extend_event(
                  c, tpm_fill_hash(hleei.pcpes, hleei.hashdataptr),
                  hleei.event),
              LAMBDA r :
                 IF r.rc # OK
                 THEN [c |-> r.c, rc |-> r.rc, opblength |-> 4]
                 ELSE [c |-> r.c, rc |-> OK, opblength |-> 8])

\* the request header behind pttti->tpmopin: only its totlen is read
Trh(pttti) == [NoCmd EXCEPT !.ordinal = "tpmopin", !.totlen = pttti.totlen]

\* pass_through_to_tpm_int that does not compare ipblength with totlen
pass_through_to_tpm_int_NoLengthMatch(c, pttti) ==
    IF c.st.if_shutdown
    THEN [c |-> c, rc |-> TCG_INTERFACE_SHUTDOWN, opblength |-> 4]
    ELSE IF pttti.ipblength < SizeofPttti + SizeofTrhPtr
            \/ pttti.opblength < SizeofPttto
    THEN [c |-> c, rc |-> TCG_INVALID_INPUT_PARA, opblength |-> 4]
    ELSE Then(transmit(c, 0, Trh(pttti), pttti.opblength - SizeofPttto),
              LAMBDA r :
                 IF r.rc # OK
                 THEN [c |-> r.c, rc |-> r.rc, opblength |-> 4]
                 ELSE [c |-> r.c, rc |-> OK,
                       opblength |-> SizeofPttto + r.resplen])

pass_through_to_tpm_int(c, pttti) ==
    IF c.st.if_shutdown
    THEN [c |-> c, rc |-> TCG_INTERFACE_SHUTDOWN, opblength |-> 4]
    ELSE IF pttti.ipblength < SizeofPttti + SizeofTrhPtr
            \/ U32(pttti.ipblength)
                 # Add32(U32(SizeofPttti), be32_to_cpu(pttti.totlen))
            \/ pttti.opblength < SizeofPttto
    THEN [c |-> c, rc |-> TCG_INVALID_INPUT_PARA, opblength |-> 4]
    ELSE Then(transmit(c, 0, Trh(pttti), pttti.opblength - SizeofPttto),
              LAMBDA r :
                 IF r.rc # OK
                 THEN [c |-> r.c, rc |-> r.rc, opblength |-> 4]
                 ELSE [c |-> r.c, rc |-> OK,
                       opblength |-> SizeofPttto + r.resplen])

\* shutdown_preboot_interface that answers a repeated request with success
shutdown_preboot_interface_Idempotent(c) ==
    [c |-> [c EXCEPT !.st.if_shutdown = TRUE], rc |-> OK]

\* shutdown_preboot_interface that flips the flag instead of setting it
shutdown_preboot_interface_Toggle(c) ==
    IF ~c.st.if_shutdown
    THEN [c |-> [c EXCEPT !.st.if_shutdown = TRUE], rc |-> OK]
    ELSE [c |-> [c EXCEPT !.st.if_shutdown = FALSE],
          rc |-> TCG_INTERFACE_SHUTDOWN]

shutdown_preboot_interface(c) ==
    IF ~c.st.if_shutdown
    THEN [c |-> [c EXCEPT !.st.if_shutdown = TRUE], rc |-> OK]
    ELSE [c |-> c, rc |-> TCG_INTERFACE_SHUTDOWN]

\* hash_log_event_int with the PCR bound off by one
hash_log_event_int_Pcr24(c, hlei) ==
    IF c.st.if_shutdown
    THEN [c |-> c, rc |-> TCG_INTERFACE_SHUTDOWN, opblength |-> 2]
    ELSE IF hlei.ipblength # SizeofHlei
    THEN [c |-> c, rc |-> TCG_INVALID_INPUT_PARA, opblength |-> 2]
    ELSE IF hlei.pcpes.pcrindex > 24
            \/ hlei.pcpes.pcrindex # hlei.pcrindex
            \/ hlei.pcpes.eventtype # hlei.logeventtype
            \/ hlei.logdatalen
                 # Add32(U32(SizeofPcpes), hlei.pcpes.eventdatasize)
    THEN [c |-> c, rc |-> TCG_INVALID_INPUT_PARA, opblength |-> 2]
    ELSE Then(tpm_log_event(c, tpm_fill_hash(hlei.pcpes, hlei.hashdataptr),
                            hlei.event),
              LAMBDA r :
                 IF r.rc # OK
                 THEN [c |-> r.c, rc |-> r.rc, opblength |-> 2]
                 ELSE [c |-> r.c, rc |-> OK, opblength |-> 8])

hash_log_event_int(c, hlei) ==
    IF c.st.if_shutdown
    THEN [c |-> c, rc |-> TCG_INTERFACE_SHUTDOWN, opblength |-> 2]
    ELSE IF hlei.ipblength # SizeofHlei
    THEN [c |-> c, rc |-> TCG_INVALID_INPUT_PARA, opblength |-> 2]
    ELSE IF hlei.pcpes.pcrindex >= 24
            \/ hlei.pcpes.pcrindex # hlei.pcrindex
            \/ hlei.pcpes.eventtype # hlei.logeventtype
            \/ hlei.logdatalen
                 # Add32(U32(SizeofPcpes), hlei.pcpes.eventdatasize)
    THEN [c |-> c, rc |-> TCG_INVALID_INPUT_PARA, opblength |-> 2]
    ELSE Then(tpm_log_event(c, tpm_fill_hash(hlei.pcpes, hlei.hashdataptr),
                            hlei.event),
              LAMBDA r :
                 IF r.rc # OK
                 THEN [c |-> r.c, rc |-> r.rc, opblength |-> 2]
                 ELSE [c |-> r.c, rc |-> OK, opblength |-> 8])

hash_all_int(c, hai) ==
    IF c.st.if_shutdown
    THEN [c |-> c, rc |-> TCG_INTERFACE_SHUTDOWN]
    ELSE IF hai.ipblength # SizeofHai \/ hai.hashdataptr = NULL
            \/ hai.hashdatalen = 0 \/ hai.algorithmid # TPM_ALG_SHA
    THEN [c |-> c, rc |-> TCG_INVALID_INPUT_PARA]
    ELSE [c |-> c, rc |-> OK]

tss_int(c) ==
    [c |-> c,
     rc |-> IF ~c.st.if_shutdown THEN TCG_PC_UNSUPPORTED
            ELSE TCG_INTERFACE_SHUTDOWN,
     opblength |-> 4]

compact_hash_log_extend_event_int(c, buffer, info, pcrindex) ==
    IF c.st.if_shutdown
    THEN [c |-> c, rc |-> TCG_INTERFACE_SHUTDOWN]
    ELSE tpm_log_extend_event(
             c, tpm_fill_hash(Pcpes(pcrindex, EV_COMPACT_HASH,
                                    U32(SizeofInfo)), buffer),
             info)

\* case TCG_StatusCheck of tpm_interrupt_handler32
StatusCheck(c) ==
    Then(is_tpm_present(c), LAMBDA r :
        [c |-> r.c,
         rc |-> IF r.rc = 0 THEN TCG_PC_TPM_NOT_PRESENT ELSE OK])

(***************************************************************************)
(* State                                                                   *)
(***************************************************************************)
VARIABLES
    tpm_state,  \* the global tpm_state
    logmem,     \* the bytes of the log area
    napp,       \* appends that returned 0 since the last reset_acpi_log
    oob,        \* a byte outside the log area has been written
    pc,         \* "idle", "tpm_startup" (inside tpm_setup) or "halted"
    op,         \* the handler that ran last
    req,        \* its request
    rc,         \* its return value, "void" if it has none
    out,        \* the opblength it stored in the output block, 0 if none
    tr,         \* the driver calls and log accesses it made, in order
    fired       \* the hardware fault it met

vars == <<tpm_state, logmem, napp, oob, pc, op, req, rc, out, tr, fired>>

NoFault == [fault |-> "none", ordinal |-> ""]

Init ==
    /\ tpm_state = [tpm_probed |-> FALSE, tpm_found |-> FALSE,
                    tpm_working |-> FALSE, if_shutdown |-> FALSE,
                    tpm_driver_to_use |-> TPM_INVALID_DRIVER,
                    tcpa |-> <<>>,
                    log_area_minimum_length |-> U32(0),
                    log_area_start_address |-> NULL,
                    entry_count |-> 0,
                    log_area_next_entry |-> NULL,
                    log_area_last_entry |-> NULL]
    \* the log area holds whatever the RAM held until it is first reset
    /\ logmem = [a \in 1..LogCap |-> 255]
    /\ napp = 0
    /\ oob = FALSE
    /\ pc = "idle"
    /\ op = "init"
    /\ req = <<>>
    /\ rc = "void"
    /\ out = 0
    /\ tr = <<>>
    /\ fired = NoFault

(***************************************************************************)
(* Inputs of the handlers                                                  *)
(***************************************************************************)
NoPlan == [n |-> 0, fault |-> "none"]

\* every hardware plan whose fault hits one of the first k+1 transmits
AllPlans(k) ==
    {NoPlan} \cup {d \in DevPlans : d.fault # "none" /\ d.n <= k}

\* a timeout, an error status or a short response
SomeFaults == {"waitrespready", "errcode", "shortresp"}

\* the plans the measurement handlers are run with
Plans(k) == {d \in AllPlans(k) : d.fault \in {"none"} \cup SomeFaults}

\* what probe() may answer: the drivers whose TPM is in the machine
Presence == SUBSET (0..(TPM_NUM_DRIVERS - 1))

\* a TPM that has answered a probe stays in the machine
Hardware ==
    IF tpm_state.tpm_driver_to_use # TPM_INVALID_DRIVER
    THEN {{tpm_state.tpm_driver_to_use}}
    ELSE Presence

\* probe() is only asked when a handler probes
ProbeInputs == IF tpm_state.tpm_probed THEN {{}} ELSE Hardware

NoAcpi == [rsdp |-> FALSE, rsdt |-> FALSE, entry |-> <<>>]

Ctx(dev, present, acpi) ==
    [st |-> tpm_state, mem |-> logmem, tr |-> <<>>, dev |-> dev,
     fired |-> NoFault, present |-> present, acpi |-> acpi,
     napp |-> napp, oob |-> oob]

\* a handler returns: its effects become the state.  The model follows a
\* run up to the first write outside the log area and no further
Done(c, o, q, r, ob, p) ==
    /\ tpm_state' = c.st
    /\ logmem' = c.mem
    /\ napp' = c.napp
    /\ oob' = c.oob
    /\ tr' = c.tr
    /\ fired' = c.fired
    /\ op' = o
    /\ req' = q
    /\ rc' = r
    /\ out' = ob
    /\ pc' = IF c.oob THEN "halted" ELSE p

\* the same for a handler that returns r.rc, and for one that also stores
\* r.opblength
DoneRc(r, o, q, p) == Done(r.c, o, q, r.rc, 0, p)

DoneOut(r, o, q, p) == Done(r.c, o, q, r.rc, r.opblength, p)

\* pcr indices callers pass: the last valid one, the first invalid one and
\* a larger one
PcrInputs == {23, 24, 255}

\* eventdatasize values callers pass: a body length, and two values for
\* which sizeof(*pcpes) + eventdatasize exceeds 2^32
EdsInputs == {U32(28), Neg32(16), Neg32(72)}

\* a log request: the input block of hash_log_extend_event_int or
\* hash_log_event_int (the former has no logeventtype and ignores it), the
\* struct pcpes at logdataptr and the event body that follows it
LogRequest(ipblength, pcrindex, ppcr, etype, eds, len, hash) ==
    [ipblength |-> ipblength, pcrindex |-> pcrindex,
     logeventtype |-> etype, logdatalen |-> len, hashdataptr |-> hash,
     pcpes |-> [pcrindex |-> ppcr, eventtype |-> EV_ACTION, digest |-> 7,
                eventdatasize |-> eds],
     event |-> 40]

\* the well-formed requests and their one-field variations; sizes[1] is the
\* block length the function expects, etypes[1] the matching event type
LogRequests(sizes, etypes) ==
    {LogRequest(sizes[1], 23, 23, etypes[1], eds,
                Add32(U32(SizeofPcpes), eds), 9) : eds \in EdsInputs}
    \cup {LogRequest(sizes[i], 23, 23, etypes[1], U32(28), U32(60), 9) :
            i \in DOMAIN sizes}
    \cup {LogRequest(sizes[1], 23, 23, etypes[i], U32(28), U32(60), 9) :
            i \in DOMAIN etypes}
    \cup {LogRequest(sizes[1], p, p, etypes[1], U32(28), U32(60), 9) :
            p \in PcrInputs}
    \cup {LogRequest(sizes[1], 24, 23, etypes[1], U32(28), U32(60), 9),
          LogRequest(sizes[1], 23, 22, etypes[1], U32(28), U32(60), 9),
          LogRequest(sizes[1], 23, 23, etypes[1], U32(56), U32(60), 9)}

HleeiInputs ==
    LogRequests(<<SizeofHleeiShort, SizeofHleeiLong, SizeofHleeiShort - 1>>,
                <<EV_ACTION>>)

HleiInputs ==
    LogRequests(<<SizeofHlei, SizeofHlei - 1>>, <<EV_ACTION, EV_IPL>>)

\* pass-through requests: the block lengths and the totlen of the embedded
\* TPM request, in wire order
Pttti(ipblength, opblength, totlen) ==
    [ipblength |-> ipblength, opblength |-> opblength,
     totlen |-> cpu_to_be32(U32(totlen))]

PtttiInputs ==
    {Pttti(18, 14, 10), Pttti(18, 4, 10), Pttti(12, 14, 4),
     Pttti(11, 14, 3), Pttti(18, 14, 11), Pttti(18, 3, 10)}

Hai(ipblength, hashdataptr, hashdatalen, algorithmid) ==
    [ipblength |-> ipblength, hashdataptr |-> hashdataptr,
     hashdatalen |-> hashdatalen, algorithmid |-> algorithmid]

HaiInputs ==
    {Hai(SizeofHai, 9, 4, TPM_ALG_SHA), Hai(SizeofHai - 1, 9, 4, TPM_ALG_SHA),
     Hai(SizeofHai, NULL, 4, TPM_ALG_SHA), Hai(SizeofHai, 9, 0, TPM_ALG_SHA),
     Hai(SizeofHai, 9, 4, TPM_ALG_SHA + 1)}

(***************************************************************************)
(* Boot hooks                                                              *)
(***************************************************************************)
\* tpm_setup up to the return of tpm_acpi_init; xen: runningOnXen()
TpmSetupAcpiInit(xen, acpi, present) ==
    /\ pc = "idle"
    /\ Done(tpm_acpi_init(Ctx(NoPlan, present, acpi)),
            "tpm_acpi_init", [xen |-> xen, acpi |-> acpi], "void", 0,
            IF xen THEN "idle" ELSE "tpm_startup")

\* the rest of tpm_setup: the call of tpm_startup
TpmSetupStartup(dev, smbios, coreboot) ==
    /\ pc = "tpm_startup"
    /\ DoneRc(tpm_startup(Ctx(dev, {}, NoAcpi), smbios, coreboot),
              "tpm_startup", [smbios |-> smbios, coreboot |-> coreboot],
              "idle")

TpmPrepboot(dev, present) ==
    /\ pc = "idle"
    /\ Done(tpm_prepboot(Ctx(dev, present, NoAcpi)),
            "tpm_prepboot", <<>>, "void", 0, "idle")

TpmOptionRom(dev, present) ==
    /\ pc = "idle"
    /\ DoneRc(tpm_option_rom(Ctx(dev, present, NoAcpi)),
              "tpm_option_rom", <<>>, "idle")

TpmAddBcv(bootdrv, dev, present) ==
    /\ pc = "idle"
    /\ DoneRc(tpm_add_bcv(Ctx(dev, present, NoAcpi), bootdrv),
              "tpm_add_bcv", [bootdrv |-> bootdrv], "idle")

TpmAddCdrom(dev, present) ==
    /\ pc = "idle"
    /\ DoneRc(tpm_add_cdrom(Ctx(dev, present, NoAcpi)),
              "tpm_add_cdrom", <<>>, "idle")

TpmAddCdromCatalog(dev, present) ==
    /\ pc = "idle"
    /\ DoneRc(tpm_add_cdrom_catalog(Ctx(dev, present, NoAcpi)),
              "tpm_add_cdrom_catalog", <<>>, "idle")

TpmS3Resume(dev, present) ==
    /\ pc = "idle"
    /\ Done(tpm_s3_resume(Ctx(dev, present, NoAcpi)),
            "tpm_s3_resume", <<>>, "void", 0, "idle")

(***************************************************************************)
(* tpm_interrupt_handler32, one action per value of regs->al               *)
(***************************************************************************)
TCG_StatusCheck(present) ==
    /\ pc = "idle"
    /\ DoneRc(StatusCheck(Ctx(NoPlan, present, NoAcpi)),
              "TCG_StatusCheck", <<>>, "idle")

TCG_HashLogExtendEvent(hleei, dev, present) ==
    /\ pc = "idle"
    /\ DoneOut(hash_log_extend_event_int(Ctx(dev, present, NoAcpi), hleei),
              "TCG_HashLogExtendEvent", hleei, "idle")

TCG_PassThroughToTPM(pttti, dev) ==
    /\ pc = "idle"
    /\ DoneOut(pass_through_to_tpm_int(Ctx(dev, {}, NoAcpi), pttti),
              "TCG_PassThroughToTPM", pttti, "idle")

TCG_ShutdownPreBootInterface ==
    /\ pc = "idle"
    /\ DoneRc(shutdown_preboot_interface(Ctx(NoPlan, {}, NoAcpi)),
              "TCG_ShutdownPreBootInterface", <<>>, "idle")

TCG_HashLogEvent(hlei) ==
    /\ pc = "idle"
    /\ DoneOut(hash_log_event_int(Ctx(NoPlan, {}, NoAcpi), hlei),
              "TCG_HashLogEvent", hlei, "idle")

TCG_HashAll(hai) ==
    /\ pc = "idle"
    /\ DoneRc(hash_all_int(Ctx(NoPlan, {}, NoAcpi), hai),
              "TCG_HashAll", hai, "idle")

TCG_TSS ==
    /\ pc = "idle"
    /\ DoneOut(tss_int(Ctx(NoPlan, {}, NoAcpi)),
              "TCG_TSS", <<>>, "idle")

TCG_CompactHashLogExtendEvent(buffer, pcrindex, dev, present) ==
    /\ pc = "idle"
    /\ DoneRc(compact_hash_log_extend_event_int(
                  Ctx(dev, present, NoAcpi), buffer, 77, pcrindex),
              "TCG_CompactHashLogExtendEvent",
              [buffer |-> buffer, pcrindex |-> pcrindex], "idle")

\* the well-formed request with every hardware plan, the other requests
\* with healthy hardware
Runs(reqs, canon, plans) ==
    {<<canon, d>> : d \in plans} \cup {<<r, NoPlan>> : r \in reqs}

HleeiCanon ==
    LogRequest(SizeofHleeiShort, 23, 23, EV_ACTION, U32(28), U32(60), 9)

CompactInputs ==
    {[buffer |-> 9, pcrindex |-> p] : p \in PcrInputs}
        \cup {[buffer |-> NULL, pcrindex |-> 23]}

Next ==
    \/ \E xen \in BOOLEAN, acpi \in AcpiStates, present \in Hardware :
            TpmSetupAcpiInit(xen, acpi, present)
    \/ \E dev \in AllPlans(MaxFaultAt), smbios \in BOOLEAN,
          coreboot \in BOOLEAN :
            TpmSetupStartup(dev, smbios, coreboot)
    \/ \E dev \in Plans(MaxFaultAt), present \in ProbeInputs :
            TpmPrepboot(dev, present)
    \/ \E dev \in Plans(0), present \in ProbeInputs :
            TpmOptionRom(dev, present)
    \/ \E run \in Runs({0, 128}, 128, Plans(2)), present \in ProbeInputs :
            TpmAddBcv(run[1], run[2], present)
    \/ \E dev \in Plans(1), present \in ProbeInputs :
            TpmAddCdrom(dev, present)
    \/ \E dev \in Plans(1), present \in ProbeInputs :
            TpmAddCdromCatalog(dev, present)
    \/ \E dev \in Plans(0), present \in ProbeInputs :
            TpmS3Resume(dev, present)
    \/ \E present \in Hardware : TCG_StatusCheck(present)
    \/ \E run \in Runs(HleeiInputs, HleeiCanon, Plans(0)),
          present \in ProbeInputs :
            TCG_HashLogExtendEvent(run[1], run[2], present)
    \/ \E run \in Runs(PtttiInputs, Pttti(18, 14, 10), Plans(0)) :
            TCG_PassThroughToTPM(run[1], run[2])
    \/ TCG_ShutdownPreBootInterface
    \/ \E hlei \in HleiInputs : TCG_HashLogEvent(hlei)
    \/ \E hai \in HaiInputs : TCG_HashAll(hai)
    \/ TCG_TSS
    \/ \E run \in Runs(CompactInputs, [buffer |-> 9, pcrindex |-> 23],
                       Plans(0)),
          present \in ProbeInputs :
            TCG_CompactHashLogExtendEvent(run[1].buffer, run[1].pcrindex,
                                          run[2], present)

Spec == Init /\ [][Next]_vars

TypeOK ==
    /\ pc \in {"idle", "tpm_startup", "halted"}
    /\ tpm_state.tpm_probed \in BOOLEAN
    /\ Len(logmem) = LogCap

(***************************************************************************)
(* What the handler that ran last did, read off its trace.                 *)
(***************************************************************************)
Fns(t) == {t[i].fn : i \in DOMAIN t}

\* a driver function of transmit was called
Transmits(t) ==
    Fns(t) \cap {TransportSteps[i] : i \in DOMAIN TransportSteps} # {}

\* the log area was written
LogWrites(t) == Fns(t) \cap {"memcpy", "memset"} # {}

\* the memcpy calls, in order
Memcpys(t) == SelectSeq(t, LAMBDA e : e.fn = "memcpy")

\* the handlers that return what their one call of tpm_log_extend_event
\* returned
PipelineOps ==
    {"TCG_HashLogExtendEvent", "TCG_CompactHashLogExtendEvent",
     "tpm_option_rom"}

\* the measurement and pass-through entry points
MeasureOps ==
    {"TCG_HashLogExtendEvent", "TCG_HashLogEvent",
     "TCG_CompactHashLogExtendEvent", "TCG_PassThroughToTPM",
     "tpm_option_rom", "tpm_add_bcv", "tpm_add_cdrom",
     "tpm_add_cdrom_catalog", "tpm_prepboot"}

\* the entry points whose caller chooses the PCR index
PcrOps ==
    {"TCG_HashLogExtendEvent", "TCG_HashLogEvent",
     "TCG_CompactHashLogExtendEvent"}

\* the PCR indices request q of handler o names
PcrsOf(o, q) ==
    IF o = "TCG_CompactHashLogExtendEvent"
    THEN {q.pcrindex}
    ELSE {q.pcrindex, q.pcpes.pcrindex}

\* the handlers that call tpm_log_event at most once
SingleAppendOps ==
    {"TCG_HashLogEvent", "TCG_HashLogExtendEvent",
     "TCG_CompactHashLogExtendEvent", "tpm_option_rom"}

\* the eventdatasize of the entry request q of handler o appends
EdsOf(o, q) ==
    CASE o = "TCG_CompactHashLogExtendEvent" -> U32(SizeofInfo)
      [] o = "tpm_option_rom" -> U32(SizeofPcctesRomex)
      [] OTHER -> q.pcpes.eventdatasize

\* the dispatcher requests other than TCG_StatusCheck
ShutdownOps ==
    {"TCG_HashLogExtendEvent", "TCG_HashLogEvent", "TCG_HashAll",
     "TCG_PassThroughToTPM", "TCG_TSS", "TCG_CompactHashLogExtendEvent",
     "TCG_ShutdownPreBootInterface"}

\* tpm_set_failure has run: only it makes a found TPM not working
MarkedFailed == tpm_state.tpm_found /\ ~tpm_state.tpm_working

\* the log region is established
Located == tpm_state.log_area_next_entry # NULL

(***************************************************************************)
(* C1: in tpm_log_extend_event, when transmit succeeds for the Extend but  *)
(* the response is not sizeof(rsp) bytes long, the pipeline returns        *)
(* TCG_FATAL_COM_ERROR, appends no entry and leaves the TPM not working.   *)
(***************************************************************************)
C1_ShortExtendResponse ==
    (op \in PipelineOps
     /\ fired = [fault |-> "shortresp", ordinal |-> "TPM_ORD_Extend"])
        => /\ rc = TCG_FATAL_COM_ERROR
           /\ ~LogWrites(tr)
           /\ ~tpm_state.tpm_working

(***************************************************************************)
(* C2: once tpm_set_failure has run, every measurement and pass-through    *)
(* entry point returns an error, transmits nothing and writes no log.      *)
(***************************************************************************)
C2_FailureIsSticky ==
    [][(pc = "idle" /\ MarkedFailed /\ op' \in MeasureOps)
          => (rc' # OK /\ ~Transmits(tr') /\ ~LogWrites(tr'))]_vars

(***************************************************************************)
(* C3, as stated: for a PCR index >= 24, in every reachable state, every   *)
(* entry point that takes one returns TCG_INVALID_INPUT_PARA, writes no    *)
(* log and transmits nothing.                                              *)
(***************************************************************************)
C3_PcrRejectedEverywhere ==
    (op \in PcrOps /\ \E p \in PcrsOf(op, req) : p >= 24)
        => /\ rc = TCG_INVALID_INPUT_PARA
           /\ ~LogWrites(tr)
           /\ ~Transmits(tr)

(***************************************************************************)
(* C3, amended: for a PCR index >= 24 every such entry point writes no log *)
(* and transmits nothing, and returns TCG_INTERFACE_SHUTDOWN when the      *)
(* interface is shut down, else TCG_GENERAL_ERROR when it is the compact   *)
(* call and the TPM is not working, else TCG_INVALID_INPUT_PARA.           *)
(***************************************************************************)
C3_PcrOutOfRange ==
    [][(op' \in PcrOps /\ \E p \in PcrsOf(op', req') : p >= 24)
          => /\ ~LogWrites(tr')
             /\ ~Transmits(tr')
             /\ logmem' = logmem
             /\ rc' = IF tpm_state.if_shutdown
                      THEN TCG_INTERFACE_SHUTDOWN
                      ELSE IF op' = "TCG_CompactHashLogExtendEvent"
                              /\ ~tpm_state'.tpm_working
                      THEN TCG_GENERAL_ERROR
                      ELSE TCG_INVALID_INPUT_PARA]_vars

C3_Witness ==
    /\ op = "TCG_CompactHashLogExtendEvent"
    /\ req.pcrindex = 24
    /\ tpm_state.tpm_working
    /\ Located
    /\ rc = TCG_INVALID_INPUT_PARA

(***************************************************************************)
(* C4: the cursor stays between the base and the end of the log area, and  *)
(* no append writes a byte outside the area.                               *)
(***************************************************************************)
C4_LogWithinRegion ==
    /\ ~oob
    /\ Located =>
          NextOffset(tpm_state)
              \in 0..Nat32(tpm_state.log_area_minimum_length)

(***************************************************************************)
(* C5: an append whose header plus event data would take the cursor past   *)
(* the end of the area returns TCG_PC_LOGOVERFLOW and leaves the area, the *)
(* cursor, the last entry and the entry count as they were; an append that *)
(* fits, also one that exactly fills the area, succeeds.                   *)
(***************************************************************************)
\* offset off plus a header plus eds bytes, not reduced modulo 2^32, is
\* more than cap
PastCapacity(off, eds, cap) ==
    eds[1] > 0 \/ off + SizeofPcpes + eds[2] > cap

C5_OverflowRejected ==
    [][(op' \in SingleAppendOps /\ "tpm_log_event" \in Fns(tr') /\ Located)
          => IF PastCapacity(NextOffset(tpm_state), EdsOf(op', req'),
                             Nat32(tpm_state.log_area_minimum_length))
             THEN /\ rc' = TCG_PC_LOGOVERFLOW
                  /\ logmem' = logmem
                  /\ tpm_state'.log_area_next_entry
                         = tpm_state.log_area_next_entry
                  /\ tpm_state'.log_area_last_entry
                         = tpm_state.log_area_last_entry
                  /\ tpm_state'.entry_count = tpm_state.entry_count
             ELSE /\ rc' = OK
                  /\ "memcpy" \in Fns(tr')]_vars

(***************************************************************************)
(* C6: entry_count is the number of appends that have succeeded since the  *)
(* last reset of the log, and after a successful append                    *)
(* log_area_last_entry is the address that append wrote its entry to, the  *)
(* cursor as it stood before the append.                                   *)
(***************************************************************************)
C6_CountAndLastEntry ==
    [][/\ tpm_state'.entry_count = napp'
       /\ Memcpys(tr') # <<>> =>
             /\ Memcpys(tr')[1].dest = tpm_state.log_area_next_entry
             /\ tpm_state'.log_area_last_entry
                    = Memcpys(tr')[Len(Memcpys(tr'))].dest]_vars

C6_Witness ==
    /\ op = "tpm_startup"
    /\ rc = OK
    /\ tpm_state.entry_count = 2
    /\ tpm_state.log_area_last_entry = LogBase + SizeofPcpes + SizeofPcctes

(***************************************************************************)
(* C7: a successful append moves the cursor by sizeof(struct pcpes) plus   *)
(* eventdatasize, the value it stores in the entry's header and the number *)
(* of body bytes it copies; a failed append does not move the cursor.      *)
(***************************************************************************)
C7_CursorAdvance ==
    [][(op' \in SingleAppendOps /\ Located)
          => IF "memcpy" \in Fns(tr')
             THEN /\ EdsOf(op', req')[1] = 0
                  /\ tpm_state'.log_area_next_entry
                         = tpm_state.log_area_next_entry + SizeofPcpes
                               + EdsOf(op', req')[2]
                  /\ \A i \in 0..3 :
                        logmem'[NextOffset(tpm_state) + 28 + i + 1]
                            = ByteOf32(EdsOf(op', req'), i)
                  /\ \A a \in DOMAIN logmem :
                        (a - 1 < NextOffset(tpm_state)
                         \/ a - 1 >= NextOffset(tpm_state')) =>
                            logmem'[a] = logmem[a]
             ELSE tpm_state'.log_area_next_entry
                      = tpm_state.log_area_next_entry]_vars

(***************************************************************************)
(* C8: after reset_acpi_log on a located log area the entry count is 0,    *)
(* there is no last entry, the cursor is at the base of the area and every *)
(* byte of the area is zero.                                               *)
(***************************************************************************)
C8_ResetClearsLog ==
    (op = "tpm_acpi_init" /\ tpm_state.tpm_working /\ tpm_state.tcpa # <<>>)
        => /\ tpm_state.entry_count = 0
           /\ tpm_state.log_area_last_entry = NULL
           /\ tpm_state.log_area_start_address
                  = tpm_state.tcpa[1].log_area_start_address
           /\ tpm_state.log_area_next_entry
                  = tpm_state.log_area_start_address
           /\ \A a \in 1..Nat32(tpm_state.tcpa[1].log_area_minimum_length) :
                 logmem[a] = 0

C8_Witness ==
    /\ op = "tpm_acpi_init"
    /\ tpm_state.tpm_working
    /\ tpm_state.tcpa # <<>>
    /\ "memset" \in Fns(tr)
    /\ logmem[LogCap] = 0

(***************************************************************************)
(* C9: while if_shutdown is set, every dispatcher request other than       *)
(* TCG_StatusCheck returns TCG_INTERFACE_SHUTDOWN, calls no driver         *)
(* function and does not touch the log; a second shutdown request returns  *)
(* TCG_INTERFACE_SHUTDOWN too.                                             *)
(***************************************************************************)
C9_ShutdownRefusesAll ==
    [][(tpm_state.if_shutdown /\ op' \in ShutdownOps)
          => /\ rc' = TCG_INTERFACE_SHUTDOWN
             /\ tr' = <<>>
             /\ logmem' = logmem
             /\ tpm_state' = tpm_state]_vars

C9_Witness ==
    /\ op = "TCG_ShutdownPreBootInterface"
    /\ rc = TCG_INTERFACE_SHUTDOWN
    /\ tpm_state.if_shutdown
    /\ tpm_state.tpm_working

(***************************************************************************)
(* C10, as stated: once if_shutdown is set, no dispatcher request and no   *)
(* boot hook clears it.                                                    *)
(***************************************************************************)
C10_LatchNeverCleared ==
    [][tpm_state.if_shutdown => tpm_state'.if_shutdown]_vars

(***************************************************************************)
(* C10, amended: once if_shutdown is set, no dispatcher request and no     *)
(* boot hook other than tpm_setup, whose tpm_acpi_init reinitializes the   *)
(* flags, clears it.                                                       *)
(***************************************************************************)
C10_LatchHeldUntilSetup ==
    [][(tpm_state.if_shutdown /\ op' # "tpm_acpi_init")
          => tpm_state'.if_shutdown]_vars

C10_Witness ==
    /\ op = "tpm_add_cdrom"
    /\ tpm_state.if_shutdown
    /\ tpm_state.tpm_working
    /\ "memcpy" \in Fns(tr)

(***************************************************************************)
(* C11: in every reachable state tpm_working implies tpm_found and         *)
(* tpm_found implies tpm_probed.                                           *)
(***************************************************************************)
C11_WorkingFoundProbed ==
    /\ tpm_state.tpm_working => tpm_state.tpm_found
    /\ tpm_state.tpm_found => tpm_state.tpm_probed

\* a probe that found no TPM, and a found TPM that has been marked failed
C11_Witness ==
    \/ (op = "tpm_acpi_init" /\ tpm_state.tpm_probed
           /\ ~tpm_state.tpm_found /\ "probe" \in Fns(tr))
    \/ (MarkedFailed /\ tpm_state.tpm_probed /\ fired.fault # "none")

(***************************************************************************)
(* C12: once tpm_working is false after a probe, no operation other than   *)
(* the reinitialization by tpm_acpi_init makes it true again; status       *)
(* check, tpm_s3_resume and the measurement requests leave it false.       *)
(***************************************************************************)
C12_FailureStaysUntilInit ==
    [][(tpm_state.tpm_probed /\ ~tpm_state.tpm_working
          /\ op' # "tpm_acpi_init") => ~tpm_state'.tpm_working]_vars

\* tpm_s3_resume has run on a TPM that had been marked failed
C12_Witness ==
    /\ op = "tpm_s3_resume"
    /\ MarkedFailed
    /\ tpm_state.tpm_probed
    /\ tr = <<>>

(***************************************************************************)
(* C13: in every reachable state a driver is selected, tpm_driver_to_use   *)
(* is not TPM_INVALID_DRIVER, if and only if tpm_found is set.             *)
(***************************************************************************)
C13_DriverIffFound ==
    (tpm_state.tpm_driver_to_use # TPM_INVALID_DRIVER) <=> tpm_state.tpm_found

(***************************************************************************)
(* C14: while tpm_working is false no operation appends an entry to the    *)
(* log: the entry count and the cursor stay as they are.  Read for a TPM   *)
(* that has been probed, and for the operations other than the             *)
(* reinitialization, which starts a new log.                               *)
(***************************************************************************)
C14_NoAppendWhileNotWorking ==
    [][(tpm_state.tpm_probed /\ ~tpm_state.tpm_working
          /\ op' # "tpm_acpi_init")
          => /\ tpm_state'.entry_count = tpm_state.entry_count
             /\ tpm_state'.log_area_next_entry
                    = tpm_state.log_area_next_entry]_vars

(***************************************************************************)
(* C15 rests on the trace of a handler: the entries written are its memcpy *)
(* calls, and the requests sent are its senddata calls.                    *)
(***************************************************************************)
\* call j of trace t sends a TPM_ORD_Extend for the PCR index and digest of
\* the entry that call i of t copies into the log
SendsExtendFor(t, j, i) ==
    /\ t[j].fn = "senddata"
    /\ t[j].cmd.ordinal = "TPM_ORD_Extend"
    /\ t[j].cmd.pcrindex = t[i].cmd.pcrindex
    /\ t[j].cmd.digest = t[i].cmd.digest

\* the transmit that call j of t belongs to went through to ready()
Completed(t, j) == j + 4 <= Len(t) /\ t[j + 4].fn = "ready"

\* the Extend requests of t that went through to ready()
CompletedExtends(t) ==
    {j \in DOMAIN t : /\ t[j].fn = "senddata"
                       /\ t[j].cmd.ordinal = "TPM_ORD_Extend"
                       /\ Completed(t, j)}

\* every memcpy of t is preceded by an Extend for its entry that went
\* through, and when the response to an Extend was the fault f, that Extend
\* has no entry
AppendsFollowExtends(t, f) ==
    /\ \A i \in DOMAIN t :
          t[i].fn = "memcpy" =>
              \E j \in CompletedExtends(t) :
                  /\ SendsExtendFor(t, j, i)
                  /\ j + 4 < i
    /\ (f.ordinal = "TPM_ORD_Extend" /\ f.fault \in ResponseFaults) =>
          Len(Memcpys(t)) < Cardinality(CompletedExtends(t))

(***************************************************************************)
(* C15, as stated: every entry written to the log is preceded by a         *)
(* successful Extend for the same PCR index and digest; no append happens  *)
(* before the Extend is sent or when the Extend failed.                    *)
(***************************************************************************)
C15_AppendAfterExtend ==
    [][AppendsFollowExtends(tr', fired')]_vars

(***************************************************************************)
(* C15, amended: every entry written to the log by an operation other than *)
(* the log-only TCG_HashLogEvent is preceded by a successful Extend for    *)
(* the same PCR index and digest; no such append happens before the Extend *)
(* is sent or when the Extend failed.                                      *)
(***************************************************************************)
C15_PipelineAppendAfterExtend ==
    [][op' # "TCG_HashLogEvent" =>
          AppendsFollowExtends(tr', fired')]_vars

\* one entry was written, then the Extend of the next one failed
C15_Witness ==
    /\ fired.ordinal = "TPM_ORD_Extend"
    /\ fired.fault = "shortresp"
    /\ Len(Memcpys(tr)) >= 1

(***************************************************************************)
(* C16: when the Extend succeeds and the append that follows overflows,    *)
(* the measure operation returns TCG_PC_LOGOVERFLOW, tpm_set_failure has   *)
(* run and tpm_working is false, the log is unchanged, and the Extend is   *)
(* not taken back: the TPM has accepted one Extend more than there are     *)
(* entries.                                                                *)
(***************************************************************************)
\* a call of tpm_log_event in t that copied nothing
OverflowedAppend(t) ==
    \E i \in DOMAIN t :
        t[i].fn = "tpm_log_event" /\ (i = Len(t) \/ t[i + 1].fn # "memcpy")

\* tpm_set_failure has sent its TPM_ORD_SetTempDeactivated in t
Deactivated(t) ==
    \E i \in DOMAIN t :
        t[i].fn = "senddata" /\ t[i].cmd.ordinal = "TPM_ORD_SetTempDeactivated"

C16_OverflowAfterExtend ==
    [][(op' # "TCG_HashLogEvent" /\ OverflowedAppend(tr'))
          => /\ rc' \in {TCG_PC_LOGOVERFLOW, "void"}
             /\ ~tpm_state'.tpm_working
             /\ Deactivated(tr')
             /\ Cardinality(CompletedExtends(tr')) = Len(Memcpys(tr')) + 1
             /\ tpm_state'.entry_count = tpm_state.entry_count + Len(Memcpys(tr'))
             /\ op' \in PipelineOps =>
                   /\ logmem' = logmem
                   /\ tpm_state'.log_area_next_entry
                          = tpm_state.log_area_next_entry
                   /\ tpm_state'.log_area_last_entry
                          = tpm_state.log_area_last_entry]_vars

\* a request met a located log that had no room left for its entry
C16_Witness ==
    /\ op = "TCG_HashLogExtendEvent"
    /\ rc = TCG_PC_LOGOVERFLOW
    /\ Located
    /\ tpm_state.entry_count >= 1
    /\ OverflowedAppend(tr)

(***************************************************************************)
(* C17: when the initialization finds no TCPA table, be it that there is   *)
(* no RSDP or that the RSDT behind it holds no table with the TCPA         *)
(* signature and a valid checksum, if_shutdown is set afterwards.          *)
(***************************************************************************)
C17_NoTableDisables ==
    (op = "tpm_acpi_init" /\ tpm_state.tcpa = <<>>)
        => tpm_state.if_shutdown

(***************************************************************************)
(* C18: a request that is rejected with TCG_INVALID_INPUT_PARA leaves the  *)
(* whole of tpm_state and the log as they were, and calls no driver        *)
(* function.                                                               *)
(***************************************************************************)
\* a function of a TPM driver was called
DriverCalls(t) ==
    Transmits(t) \/ Fns(t) \cap {"probe", "init", "set_timeouts"} # {}

C18_InvalidInputNoEffect ==
    [][rc' = TCG_INVALID_INPUT_PARA
          => /\ tpm_state' = tpm_state
             /\ logmem' = logmem
             /\ ~DriverCalls(tr')
             /\ ~LogWrites(tr')]_vars

(***************************************************************************)
(* C19 is about the two length checks of a pass-through request q.         *)
(***************************************************************************)
\* the declared input block length is not the fixed prefix plus the totlen
\* of the embedded request
LengthMismatch(q) ==
    q.ipblength # SizeofPttti + Nat32(be32_to_cpu(q.totlen))

\* the declared output block length is below the minimum
OutputTooShort(q) == q.opblength < SizeofPttto

(***************************************************************************)
(* C19, as stated: a pass-through request that fails one of the two checks *)
(* returns TCG_INVALID_INPUT_PARA and nothing is transmitted; only         *)
(* requests that pass both reach the transport.                            *)
(***************************************************************************)
C19_PassThroughLengths ==
    [][op' = "TCG_PassThroughToTPM" =>
          /\ (LengthMismatch(req') \/ OutputTooShort(req'))
                => (rc' = TCG_INVALID_INPUT_PARA /\ ~Transmits(tr'))
          /\ Transmits(tr')
                => (~LengthMismatch(req') /\ ~OutputTooShort(req'))]_vars

(***************************************************************************)
(* C19, amended: such a request is not transmitted, and it returns         *)
(* TCG_INVALID_INPUT_PARA unless the interface is shut down, when it       *)
(* returns TCG_INTERFACE_SHUTDOWN; only requests that pass both checks     *)
(* reach the transport.                                                    *)
(***************************************************************************)
C19_PassThroughLengthsOpen ==
    [][op' = "TCG_PassThroughToTPM" =>
          /\ (LengthMismatch(req') \/ OutputTooShort(req'))
                => /\ ~Transmits(tr')
                   /\ rc' = IF tpm_state.if_shutdown
                            THEN TCG_INTERFACE_SHUTDOWN
                            ELSE TCG_INVALID_INPUT_PARA
          /\ Transmits(tr')
                => (~LengthMismatch(req') /\ ~OutputTooShort(req'))]_vars

\* a mismatching request was rejected while the TPM could have taken it
C19_Witness ==
    /\ op = "TCG_PassThroughToTPM"
    /\ rc = TCG_INVALID_INPUT_PARA
    /\ LengthMismatch(req)
    /\ ~OutputTooShort(req)
    /\ req.ipblength >= SizeofPttti + SizeofTrhPtr
    /\ tpm_state.tpm_working

(***************************************************************************)
(* C20: whenever a dispatcher request or a boot hook returns               *)
(* TCG_FATAL_COM_ERROR, tpm_set_failure has run: tpm_working is false when *)
(* the operation returns.                                                  *)
(***************************************************************************)
C20_FatalComMarksFailed ==
    rc = TCG_FATAL_COM_ERROR => ~tpm_state.tpm_working

(***************************************************************************)
(* C21: if a step of tpm_startup fails, by a transport error, by a device  *)
(* status that is not tolerated, or by a measurement that fails, then      *)
(* tpm_set_failure runs, tpm_working is false afterwards and tpm_startup   *)
(* returns an error code.                                                  *)
(***************************************************************************)
\* the commands tpm_startup sends itself, without those of tpm_set_failure
StartupOrdinals ==
    {"TPM_ORD_Startup", "TPM_ORD_GetCapability", "TPM_ORD_SelfTestFull",
     "TSC_ORD_ResetEstablishmentBit", "TPM_ORD_Extend"}

\* tpm_startup takes the device status f.fault of command f.ordinal for a
\* success; q.coreboot is CONFIG_COREBOOT
ToleratedStatus(f, q) ==
    \/ f.fault = "invalid_postinit" /\ f.ordinal = "TPM_ORD_Startup"
          /\ q.coreboot
    \/ f.fault = "bad_locality"
          /\ f.ordinal = "TSC_ORD_ResetEstablishmentBit"

\* a step of the tpm_startup that was called with q, met the fault f and
\* left the trace t has failed
StartupStepFailed(f, q, t) ==
    \/ OverflowedAppend(t)
    \/ f.ordinal \in StartupOrdinals /\ f.fault \in FallibleSteps
    \/ f.ordinal = "TPM_ORD_Extend" /\ f.fault \in ResponseFaults
    \/ /\ f.ordinal \in StartupOrdinals \ {"TPM_ORD_Extend"}
       /\ f.fault \in ResponseFaults \ {"shortresp"}
       /\ ~ToleratedStatus(f, q)

C21_StartupFailureReported ==
    [][(op' = "tpm_startup" /\ StartupStepFailed(fired', req', tr'))
          => /\ Deactivated(tr')
             /\ ~tpm_state'.tpm_working
             /\ rc' # OK]_vars

(***************************************************************************)
(* C22: the order of the steps of tpm_startup.                             *)
(***************************************************************************)
\* what identifies a step in the trace: the call, its locality, and the
\* ordinal, appended constant and PCR of the command it carries
StepLabel(fn, locty, ordinal, data, pcrindex) ==
    [fn |-> fn, locty |-> locty, ordinal |-> ordinal, data |-> data,
     pcrindex |-> pcrindex]

LabelOf(e) ==
    StepLabel(e.fn, e.locty, e.cmd.ordinal, e.cmd.data, e.cmd.pcrindex)

\* the steps of tpm_startup in program order; the SMBIOS measurement sends
\* its Extend only when an SMBIOS entry point exists
StartupSteps(smbios) ==
    << StepLabel("senddata", 0, "TPM_ORD_Startup", "Startup_ST_CLEAR", 0),
       StepLabel("senddata", 0, "TPM_ORD_GetCapability",
                 "GetCapability_Timeouts", 0),
       StepLabel("senddata", 0, "TPM_ORD_GetCapability",
                 "GetCapability_Durations", 0),
       StepLabel("set_timeouts", 0, "", "", 0),
       StepLabel("senddata", 0, "TPM_ORD_SelfTestFull", "", 0),
       StepLabel("senddata", 3, "TSC_ORD_ResetEstablishmentBit", "", 0) >>
    \o (IF smbios
        THEN << StepLabel("senddata", 0, "TPM_ORD_Extend", "", 1) >>
        ELSE << >>)
    \o << StepLabel("senddata", 0, "TPM_ORD_Extend", "", 2) >>

FailureOrdinals == {"TPM_ORD_PhysicalPresence", "TPM_ORD_SetTempDeactivated"}

\* the positions in the trace where a step of tpm_startup was issued: the
\* commands sent, those of tpm_set_failure apart, and the set_timeouts call
IssuedAt(t) ==
    {i \in DOMAIN t :
        /\ t[i].fn \in {"senddata", "set_timeouts"}
        /\ t[i].cmd.ordinal \notin FailureOrdinals}

IssuedSteps(t) ==
    [k \in 1..Cardinality(IssuedAt(t)) |->
        LabelOf(t[CHOOSE i \in IssuedAt(t) :
                     Cardinality({j \in IssuedAt(t) : j <= i}) = k])]

\* the step issued at position i succeeded: the transmit went through, the
\* status read back is one tpm_startup accepts, and an Extend got a
\* response of the right length and its log entry
StepSucceeded(t, i, coreboot) ==
    \/ t[i].fn = "set_timeouts"
    \/ /\ Completed(t, i)
       /\ t[i + 3].fn = "readresp"
       /\ \/ t[i + 3].cmd.data = TPM_SUCCESS
          \/ /\ t[i + 3].cmd.data = TPM_BAD_LOCALITY
             /\ t[i].cmd.ordinal = "TSC_ORD_ResetEstablishmentBit"
          \/ /\ t[i + 3].cmd.data = TPM_INVALID_POSTINIT
             /\ t[i].cmd.ordinal = "TPM_ORD_Startup"
             /\ coreboot
       /\ t[i].cmd.ordinal = "TPM_ORD_Extend"
             => /\ t[i + 3].cmd.totlen = cpu_to_be32(U32(SizeofRspExtend))
                /\ i + 6 <= Len(t)
                /\ t[i + 5].fn = "tpm_log_event"
                /\ t[i + 6].fn = "memcpy"

IsPrefix(s, u) ==
    Len(s) <= Len(u) /\ \A k \in DOMAIN s : s[k] = u[k]

StartupInOrder(t, q) ==
    /\ IsPrefix(IssuedSteps(t), StartupSteps(q.smbios))
    /\ \A i, j \in IssuedAt(t) : i < j => StepSucceeded(t, i, q.coreboot)
    /\ \A i \in DOMAIN t :
          t[i].fn = "senddata" /\ t[i].cmd.ordinal \in FailureOrdinals
             => \A j \in IssuedAt(t) : j < i

\* C22: tpm_startup issues Startup(ST_CLEAR), the two capability queries,
\* set_timeouts, the self-test, the establishment-bit reset at locality 3,
\* the SMBIOS Extend of PCR 1 and the action Extend of PCR 2 in this order,
\* and issues a step only when every step before it succeeded (a bad
\* locality status of the reset counting as success), so set_timeouts is
\* called only after both capability queries succeeded
C22_StartupOrder ==
    [][op' = "tpm_startup" => StartupInOrder(tr', req')]_vars

\* a startup that reset the establishment bit with a bad-locality status
\* and went on to issue every step
C22_Witness ==
    /\ op = "tpm_startup"
    /\ req.smbios
    /\ fired.fault = "bad_locality"
    /\ IssuedSteps(tr) = StartupSteps(TRUE)
    /\ rc = OK

(***************************************************************************)
(* C23: the driver calls of transmit.                                      *)
(***************************************************************************)
StepNo(fn) == CHOOSE k \in DOMAIN TransportSteps : TransportSteps[k] = fn

IsTransportCall(e) == \E k \in DOMAIN TransportSteps : TransportSteps[k] = e.fn

\* the call at position i is the next driver step after the call before it
FollowsPrevious(t, i) ==
    \/ t[i].fn = "activate"
    \/ /\ i > 1
       /\ IsTransportCall(t[i - 1])
       /\ StepNo(t[i].fn) = StepNo(t[i - 1].fn) + 1

\* the call at position i is the last driver call of its transmit
EndsTransmit(t, i) ==
    \/ i = Len(t)
    \/ ~IsTransportCall(t[i + 1])
    \/ t[i + 1].fn = "activate"

\* every transmit in the trace runs the driver steps in order from
\* activate, and ends at ready or at the step that failed
TransmitsInOrder(t, f) ==
    \A i \in DOMAIN t :
        IsTransportCall(t[i]) =>
            /\ FollowsPrevious(t, i)
            /\ EndsTransmit(t, i) => (t[i].fn = "ready" \/ t[i].fn = f.fault)

\* the transmit whose step failed made no call after that step
StoppedAtFailure(t, f) ==
    f.fault \in FallibleSteps =>
        \E i \in DOMAIN t :
            /\ t[i].fn = f.fault
            /\ EndsTransmit(t, i)
            /\ \A j \in DOMAIN t :
                  t[j].fn = f.fault /\ j # i => ~EndsTransmit(t, j)

ReachesTransmit(q) ==
    /\ ~LengthMismatch(q)
    /\ ~OutputTooShort(q)
    /\ q.ipblength >= SizeofPttti + SizeofTrhPtr

\* C23: transmit calls activate, senddata, waitdatavalid, waitrespready,
\* readresp and ready in this order, makes no call after the first one that
\* fails and returns TCG_FATAL_COM_ERROR then, returns TCG_FATAL_COM_ERROR
\* without any driver call when no driver is selected, and ends every
\* transmit that went through with ready
C23_TransmitSteps ==
    [][/\ TransmitsInOrder(tr', fired')
       /\ StoppedAtFailure(tr', fired')
       /\ (op' = "TCG_PassThroughToTPM" /\ ReachesTransmit(req')
           /\ ~tpm_state.if_shutdown)
             => /\ fired'.fault \in FallibleSteps
                   => rc' = TCG_FATAL_COM_ERROR
                /\ tpm_state.tpm_driver_to_use = TPM_INVALID_DRIVER
                   => rc' = TCG_FATAL_COM_ERROR /\ tr' = << >>
                /\ (tpm_state.tpm_driver_to_use # TPM_INVALID_DRIVER
                    /\ fired'.fault \notin FallibleSteps)
                   => /\ rc' = OK
                      /\ Len(tr') = Len(TransportSteps)
                      /\ tr'[Len(tr')].fn = "ready"]_vars

\* a pass-through whose transmit timed out waiting for the response: four
\* driver calls and TCG_FATAL_COM_ERROR
C23_Witness ==
    /\ op = "TCG_PassThroughToTPM"
    /\ fired.fault = "waitrespready"
    /\ rc = TCG_FATAL_COM_ERROR
    /\ Len(tr) = 4
    /\ tr[4].fn = "waitrespready"

(***************************************************************************)
(* C24: the bounds check of tpm_log_event over all of u32.                 *)
(***************************************************************************)
\* C24: an append whose entry would end past the capacity of the log area,
\* the sum taken without wrap-around, returns TCG_PC_LOGOVERFLOW and writes
\* nothing, for every 32-bit eventdatasize
C24_BoundsCheckNoWrap ==
    [][(/\ op' \in {"TCG_HashLogEvent", "TCG_HashLogExtendEvent"}
        /\ "tpm_log_event" \in Fns(tr')
        /\ Located
        /\ PastCapacity(NextOffset(tpm_state), req'.pcpes.eventdatasize,
                        Nat32(tpm_state.log_area_minimum_length)))
          => /\ rc' = TCG_PC_LOGOVERFLOW
             /\ ~LogWrites(tr')
             /\ logmem' = logmem]_vars

(***************************************************************************)
(* C25: tpm_prepboot.  The nine entries it logs take 303 bytes, so it is   *)
(* checked on a machine whose log area holds them: setup, startup and      *)
(* tpm_prepboot with a fault at any of its eleven commands.                *)
(***************************************************************************)
BootLogCap == 304
BootFaultAt == 10

BootAcpi ==
    [rsdp |-> TRUE, rsdt |-> TRUE,
     entry |-> << [AcpiTable(TRUE, TRUE) EXCEPT
                     !.log_area_minimum_length = U32(BootLogCap)] >>]

BootPlans ==
    {NoPlan} \cup [n : 0..BootFaultAt, fault : Faults \ {"none"}]

BootInit ==
    /\ tpm_state = [tpm_probed |-> FALSE, tpm_found |-> FALSE,
                    tpm_working |-> FALSE, if_shutdown |-> FALSE,
                    tpm_driver_to_use |-> TPM_INVALID_DRIVER,
                    tcpa |-> <<>>,
                    log_area_minimum_length |-> U32(0),
                    log_area_start_address |-> NULL,
                    entry_count |-> 0,
                    log_area_next_entry |-> NULL,
                    log_area_last_entry |-> NULL]
    /\ logmem = [a \in 1..BootLogCap |-> 255]
    /\ napp = 0
    /\ oob = FALSE
    /\ pc = "idle"
    /\ op = "init"
    /\ req = <<>>
    /\ rc = "void"
    /\ out = 0
    /\ tr = <<>>
    /\ fired = NoFault

BootNext ==
    \/ \E xen \in BOOLEAN, present \in Hardware :
            TpmSetupAcpiInit(xen, BootAcpi, present)
    \/ \E dev \in Plans(0), coreboot \in BOOLEAN :
            TpmSetupStartup(dev, FALSE, coreboot)
    \/ \E dev \in BootPlans, present \in ProbeInputs :
            TpmPrepboot(dev, present)

SpecBoot == BootInit /\ [][BootNext]_vars

\* the commands of tpm_prepboot in program order
PrepbootSteps ==
    << StepLabel("senddata", 0, "TPM_ORD_PhysicalPresence",
                 "PhysicalPresence_CMD_ENABLE", 0),
       StepLabel("senddata", 0, "TPM_ORD_PhysicalPresence",
                 "PhysicalPresence_NOT_PRESENT_LOCK", 0),
       StepLabel("senddata", 0, "TPM_ORD_Extend", "", 4) >>
    \o [p \in 1..8 |-> StepLabel("senddata", 0, "TPM_ORD_Extend", "", p - 1)]

\* the commands of tpm_set_failure
FailureSteps ==
    { StepLabel("senddata", 0, "TPM_ORD_PhysicalPresence",
                "PhysicalPresence_CMD_ENABLE", 0),
      StepLabel("senddata", 0, "TPM_ORD_PhysicalPresence",
                "PhysicalPresence_PRESENT", 0),
      StepLabel("senddata", 0, "TPM_ORD_SetTempDeactivated", "", 0) }

SentAt(t) == {i \in DOMAIN t : t[i].fn = "senddata"}

\* the position in the trace of the m-th command sent
NthSent(t, m) ==
    CHOOSE i \in SentAt(t) : Cardinality({j \in SentAt(t) : j <= i}) = m

\* has_working_tpm() at the entry of the handler: the flag of a probed TPM,
\* the outcome of the probe otherwise
WorkingAtEntry(st, t) ==
    IF st.tpm_probed THEN st.tpm_working ELSE "init" \in Fns(t)

\* the first k commands sent are the first k steps of tpm_prepboot, each
\* but the last of them succeeded, and whatever was sent after them is
\* tpm_set_failure's
PrepbootIssued(t, k) ==
    /\ k <= Cardinality(SentAt(t))
    /\ \A m \in 1..k : LabelOf(t[NthSent(t, m)]) = PrepbootSteps[m]
    /\ \A m \in 1..(k - 1) : StepSucceeded(t, NthSent(t, m), FALSE)
    /\ \A m \in (k + 1)..Cardinality(SentAt(t)) :
          LabelOf(t[NthSent(t, m)]) \in FailureSteps

PrepbootDone(t, k) ==
    /\ k = Len(PrepbootSteps)
    /\ StepSucceeded(t, NthSent(t, k), FALSE)

PrepbootWorking(st, t, st2) ==
    \E k \in 0..Len(PrepbootSteps) :
        /\ PrepbootIssued(t, k)
        /\ IF PrepbootDone(t, k)
           THEN /\ Cardinality(SentAt(t)) = k
                /\ st2.entry_count = st.entry_count + 9
                /\ Len(Memcpys(t)) = 9
                /\ st2.tpm_working
           ELSE ~st2.tpm_working

\* C25 as stated: with a working TPM tpm_prepboot sends physical-presence
\* enable, not-present-lock, the Extend of the action into PCR 4 and the
\* Extends of the separators into PCR 0..7 in this order, gains nine log
\* entries and stays working when all succeed, and issues no step after the
\* first that fails, leaving the TPM not working; with a TPM that is not
\* working it sends nothing and changes nothing
C25_PrepbootSequence ==
    [][op' = "tpm_prepboot" =>
          IF WorkingAtEntry(tpm_state, tr')
          THEN PrepbootWorking(tpm_state, tr', tpm_state')
          ELSE /\ SentAt(tr') = {}
               /\ logmem' = logmem
               /\ tpm_state' = tpm_state]_vars

\* C25 amended: as above, but a TPM that is not working and was not yet
\* probed is marked probed
C25_PrepbootSequenceProbing ==
    [][op' = "tpm_prepboot" =>
          IF WorkingAtEntry(tpm_state, tr')
          THEN PrepbootWorking(tpm_state, tr', tpm_state')
          ELSE /\ SentAt(tr') = {}
               /\ logmem' = logmem
               /\ tpm_state' = [tpm_state EXCEPT !.tpm_probed = TRUE]]_vars

\* a tpm_prepboot that sent its eleven commands and logged nine entries
C25_Witness ==
    /\ op = "tpm_prepboot"
    /\ tpm_state.tpm_working
    /\ tpm_state.entry_count = 9
    /\ Cardinality(SentAt(tr)) = 11
    /\ PrepbootDone(tr, 11)

(***************************************************************************)
(* C26: the totlen of the requests pass-through hands to transmit.         *)
(***************************************************************************)
\* C26: every request that pass_through_to_tpm_int hands to transmit
\* declares a totlen of at least sizeof(struct tpm_req_header)
C26_HeaderSizeForwarded ==
    [][op' = "TCG_PassThroughToTPM" =>
          \A i \in SentAt(tr') :
              Nat32(be32_to_cpu(tr'[i].cmd.totlen)) >= SizeofReqHeader]_vars

(***************************************************************************)
(* C27: what TCG_StatusCheck changes and answers.                          *)
(***************************************************************************)
\* the flags and the log as TCG_StatusCheck must leave them
StatusCheckFrame ==
    /\ tpm_state'.tpm_probed = tpm_state.tpm_probed
    /\ tpm_state'.tpm_found = tpm_state.tpm_found
    /\ tpm_state'.tpm_working = tpm_state.tpm_working
    /\ tpm_state'.if_shutdown = tpm_state.if_shutdown
    /\ logmem' = logmem
    /\ tpm_state'.log_area_next_entry = tpm_state.log_area_next_entry
    /\ tpm_state'.log_area_last_entry = tpm_state.log_area_last_entry
    /\ tpm_state'.entry_count = tpm_state.entry_count

\* C27: TCG_StatusCheck leaves tpm_probed, tpm_found, tpm_working,
\* if_shutdown and the log (its bytes, cursor, last entry and entry count)
\* as they were, and once the TPM has been probed it answers "present"
\* exactly when tpm_found is set
C27_StatusCheckAgrees ==
    [][op' = "TCG_StatusCheck" =>
          /\ StatusCheckFrame
          /\ tpm_state.tpm_probed => (rc' = OK <=> tpm_state.tpm_found)]_vars

====
